---- MODULE Spec2Model ----
(***************************************************************************)
(* IPAM - IP address pool manager (hydrz/ipam).                            *)
(*                                                                         *)
(* The model covers                                                        *)
(*   - src/src/lib/ip-utils.ts : the CIDR arithmetic, on JavaScript's      *)
(*     number and string semantics (parseInt, Number, <<, &, |, ~, >>>);   *)
(*   - src/src/lib/db.ts       : the ip_pools table and its operations;    *)
(*   - the IPAMManager component listed in src/README.md (lines 171-623):  *)
(*     the create form, validateCIDR, handleSubmit, handleDelete,          *)
(*     loadPools and buildPoolTree.                                        *)
(*                                                                         *)
(* Strings are TLA+ strings.  A JavaScript number is <<v>> for the integer *)
(* v and <<>> for NaN; `undefined' (a missing array element) is Undef.     *)
(* A 32-bit value is carried as its two's-complement Int, for unsigned     *)
(* results (x >>> 0) too: TLC's integers are 32 bits wide, and every       *)
(* reader of such a result in ip-utils.ts is a bit operation, which reads  *)
(* the bit pattern.  The results of parseCIDR that only feed the display   *)
(* (firstIp, lastIp) and the form's cidrInfo, loading and description      *)
(* fields are left out: the component stores every pool without a          *)
(* description.                                                            *)
(***************************************************************************)
EXTENDS Integers, Sequences, FiniteSets, Bags, TLC

(***************************************************************************)
(* Bounds of the model.                                                    *)
(***************************************************************************)
\* rows the table receives over a run of Spec (AUTOINCREMENT ids 1..MaxPools)
MaxPools == 2
\* rows the table receives over a run of SeqSpec
MaxSeqPools == 3
\* asynchronous calls suspended at an await at the same time, in Spec
MaxTasks == 2
\* validateCIDR calls among them
MaxValidations == 1
\* rows the table receives over a run of StoreSpec
MaxStoreRows == 2
\* rows of the table that the component is mounted on in TreeSpec
MaxTreePools == 4

(***************************************************************************)
(* JavaScript values.                                                      *)
(***************************************************************************)
NaN == <<>>

Undef == "undefined"

Num(v) == <<v>>

isNaN(x) == x = NaN

Val(x) == x[1]

\* x + y on numbers
Add(x, y) == IF isNaN(x) \/ isNaN(y) THEN NaN ELSE Num(Val(x) + Val(y))

\* x - y on numbers
Sub(x, y) == IF isNaN(x) \/ isNaN(y) THEN NaN ELSE Num(Val(x) - Val(y))

\* ToInt32: NaN becomes 0 (the values of the model are within 32 bits)
ToInt32(x) == IF isNaN(x) THEN 0 ELSE Val(x)

\* 2^n for 0 <= n <= 30
Pow2(n) == 2 ^ n

\* v << k on 32-bit integers, 0 <= k <= 31: the low 32 - k bits of v move up
\* and the highest of them becomes the sign
Shl32(v, k) ==
    IF k = 0 THEN v
    ELSE IF v % Pow2(32 - k) >= Pow2(31 - k)
         THEN ((v % Pow2(32 - k)) - Pow2(32 - k)) * Pow2(k)
         ELSE (v % Pow2(32 - k)) * Pow2(k)

\* x << n : the shift count is taken modulo 32, the result is a signed 32-bit value
Shl(x, n) == Shl32(ToInt32(x), ToInt32(n) % 32)

\* x >>> n for 1 <= n <= 31 : the unsigned value of the bits n..31
UShr(x, n) == (ToInt32(x) \div Pow2(n)) % Pow2(32 - n)

\* x >>> 0 : the same 32 bits, read as unsigned by the bit operations that follow
U32(x) == ToInt32(x)

RECURSIVE And32(_, _)
\* x & y on two's-complement integers
And32(x, y) ==
    IF x = 0 \/ y = 0 THEN 0
    ELSE IF x = -1 THEN y
    ELSE IF y = -1 THEN x
    ELSE (x % 2) * (y % 2) + 2 * And32(x \div 2, y \div 2)

\* ~x
Not32(x) == (-1) - x

\* x | y
Or32(x, y) == Not32(And32(Not32(x), Not32(y)))

BitAnd(x, y) == And32(ToInt32(x), ToInt32(y))

BitOr(x, y) == Or32(ToInt32(x), ToInt32(y))

BitNot(x) == Not32(ToInt32(x))

\* Math.pow(2, e) for an integer e >= 0, NaN for NaN
MathPow2(e) == IF isNaN(e) THEN NaN ELSE Num(Pow2(Val(e)))

(***************************************************************************)
(* Strings: the characters of the model's inputs are the digits, '.', '/', *)
(* ' ', '-' and letters that are no part of a numeric literal.             *)
(***************************************************************************)
Char(s, i) == SubSeq(s, i, i)

DigitChars == <<"0", "1", "2", "3", "4", "5", "6", "7", "8", "9">>

isDigit(c) == \E d \in 1..10 : DigitChars[d] = c

DigitVal(c) == (CHOOSE d \in 1..10 : DigitChars[d] = c) - 1

RECURSIVE SplitFrom(_, _, _, _)
\* the pieces of s from position i on, cur being the piece under construction
SplitFrom(s, sep, i, cur) ==
    IF i > Len(s) THEN <<cur>>
    ELSE IF Char(s, i) = sep THEN <<cur>> \o SplitFrom(s, sep, i + 1, "")
    ELSE SplitFrom(s, sep, i + 1, cur \o Char(s, i))

\* s.split(sep) for a one-character separator
Split(s, sep) == SplitFrom(s, sep, 1, "")

\* parts[i] of a JavaScript array (0-based index i)
At(parts, i) == IF i + 1 <= Len(parts) THEN parts[i + 1] ELSE Undef

RECURSIVE TrimLeft(_)
TrimLeft(s) == IF Len(s) > 0 /\ Head(s) = " " THEN TrimLeft(Tail(s)) ELSE s

RECURSIVE TrimRight(_)
TrimRight(s) ==
    IF Len(s) > 0 /\ Char(s, Len(s)) = " " THEN TrimRight(SubSeq(s, 1, Len(s) - 1)) ELSE s

\* -x on numbers
Neg(x) == IF isNaN(x) THEN NaN ELSE Num(-Val(x))

RECURSIVE ReadDigits(_, _, _)
\* the value of the longest run of digits s starts with, NaN when s starts with
\* none; acc is the value read so far and seen tells that a digit was read
ReadDigits(s, acc, seen) ==
    IF Len(s) > 0 /\ isDigit(Head(s))
    THEN ReadDigits(Tail(s), 10 * acc + DigitVal(Head(s)), TRUE)
    ELSE IF seen THEN Num(acc) ELSE NaN

\* parseInt of a string without leading white space
ParseIntTrimmed(t) ==
    IF Len(t) > 0 /\ Head(t) = "-" THEN Neg(ReadDigits(Tail(t), 0, FALSE))
    ELSE ReadDigits(t, 0, FALSE)

\* parseInt(s, 10): leading white space, an optional '-', then the longest run of
\* digits; NaN when there is none.  Whatever follows the digits is ignored.
parseInt(s) == IF s = Undef THEN NaN ELSE ParseIntTrimmed(TrimLeft(s))

RECURSIVE AllDigits(_, _)
\* the value of s when s holds digits only, NaN otherwise
AllDigits(s, acc) ==
    IF Len(s) = 0 THEN Num(acc)
    ELSE IF isDigit(Head(s)) THEN AllDigits(Tail(s), 10 * acc + DigitVal(Head(s)))
    ELSE NaN

\* Number of a string without white space at either end
NumberTrimmed(t) ==
    IF Len(t) = 0 THEN Num(0)
    ELSE IF Head(t) = "-" THEN (IF Len(t) = 1 THEN NaN ELSE Neg(AllDigits(Tail(t), 0)))
    ELSE AllDigits(t, 0)

\* Number(s): white space trimmed on both sides; the empty string is 0; an
\* optional '-' and digits only is that value; anything else is NaN.
\* Number(undefined) is NaN.
Number(s) == IF s = Undef THEN NaN ELSE NumberTrimmed(TrimRight(TrimLeft(s)))

RECURSIVE DecDigits(_)
\* the decimal digits of n >= 0
DecDigits(n) ==
    IF n < 10 THEN DigitChars[n + 1] ELSE DecDigits(n \div 10) \o DigitChars[(n % 10) + 1]

\* String(x) of a number, as in a template literal or Array.join
NumToString(x) ==
    IF isNaN(x) THEN "NaN"
    ELSE IF Val(x) < 0 THEN "-" \o DecDigits(-Val(x)) ELSE DecDigits(Val(x))

(***************************************************************************)
(* src/src/lib/ip-utils.ts                                                 *)
(***************************************************************************)
\* ip.split('.').map(Number), as far as it is read: parts[0] .. parts[3]
\* (a missing part is undefined, which the arithmetic reads as NaN)
NumberParts(parts) == [i \in 1..4 |-> Number(At(parts, i - 1))]

\* (parts[0] << 24) + (parts[1] << 16) + (parts[2] << 8) + parts[3]
SumParts(parts) ==
    Add(Add(Add(Num(Shl(parts[1], Num(24))), Num(Shl(parts[2], Num(16)))),
            Num(Shl(parts[3], Num(8)))), parts[4])

ipToNumber(ip) == SumParts(NumberParts(Split(ip, ".")))

\* [(num >>> 24) & 255, (num >>> 16) & 255, (num >>> 8) & 255, num & 255].join('.')
numberToIp(num) ==
    NumToString(Num(And32(UShr(num, 24), 255))) \o "." \o
    NumToString(Num(And32(UShr(num, 16), 255))) \o "." \o
    NumToString(Num(And32(UShr(num, 8), 255))) \o "." \o
    NumToString(Num(BitAnd(num, Num(255))))

\* num >= 0 && num <= 255 of one part
isOctet(num) == ~isNaN(num) /\ Val(num) >= 0 /\ Val(num) <= 255

\* parts.length === 4 and every part parses (parseInt) to a number in 0..255
isValidIp(ip) ==
    Len(Split(ip, ".")) = 4
    /\ \A part \in {Split(ip, ".")[i] : i \in 1..4} : isOctet(parseInt(part))

\* prefixNum >= 8 && prefixNum <= 32
isPrefix(prefixNum) == ~isNaN(prefixNum) /\ Val(prefixNum) >= 8 /\ Val(prefixNum) <= 32

isValidCIDR(cidr) ==
    Len(Split(cidr, "/")) = 2
    /\ isValidIp(Split(cidr, "/")[1])
    /\ isPrefix(parseInt(Split(cidr, "/")[2]))

\* mask = (-1 << (32 - prefix)) >>> 0
PrefixMask(prefix) == U32(Num(Shl(Num(-1), Sub(Num(32), prefix))))

\* the address itself, its host bits kept
NetworkUnmasked(ipNum, mask) == U32(ipNum)

\* network = (ipNum & mask) >>> 0
Network(ipNum, mask) == U32(Num(BitAnd(ipNum, Num(mask))))

\* broadcast = (network | ~mask) >>> 0
Broadcast(network, mask) == U32(Num(BitOr(Num(network), Num(BitNot(Num(mask))))))

\* the object parseCIDR returns
Range(network, broadcast, prefix) ==
    [networkAddress   |-> numberToIp(Num(network)),
     broadcastAddress |-> numberToIp(Num(broadcast)),
     totalIps         |-> MathPow2(Sub(Num(32), prefix)),
     prefix           |-> prefix]

RangeOfNetwork(network, mask, prefix) == Range(network, Broadcast(network, mask), prefix)

RangeOfIp(ipNum, mask, prefix) == RangeOfNetwork(Network(ipNum, mask), mask, prefix)

\* parseCIDR of [ip, prefixStr] = cidr.split('/'), prefix = parseInt(prefixStr, 10)
ParseParts(ip, prefix) == RangeOfIp(ipToNumber(ip), PrefixMask(prefix), prefix)

parseCIDR(cidr) == ParseParts(At(Split(cidr, "/"), 0), parseInt(At(Split(cidr, "/"), 1)))

\* a <= b, a >= b on numbers: false when either is NaN
Le(a, b) == ~isNaN(a) /\ ~isNaN(b) /\ Val(a) <= Val(b)

Ge(a, b) == ~isNaN(a) /\ ~isNaN(b) /\ Val(a) >= Val(b)

\* start1 < end2 && end1 > start2: ranges that share more than an end
RangesCross(start1, end1, start2, end2) ==
    ~isNaN(start1) /\ ~isNaN(end1) /\ ~isNaN(start2) /\ ~isNaN(end2)
    /\ Val(start1) < Val(end2) /\ Val(end1) > Val(start2)

\* start1 <= end2 && end1 >= start2
RangesOverlap(start1, end1, start2, end2) == Le(start1, end2) /\ Ge(end1, start2)

\* the numbers of the two ends of two parsed ranges
Ends(range1, range2) ==
    [i \in 1..4 |-> ipToNumber(<<range1.networkAddress, range1.broadcastAddress,
                                 range2.networkAddress, range2.broadcastAddress>>[i])]

OverlapOfEnds(e) == RangesOverlap(e[1], e[2], e[3], e[4])

cidrsOverlap(cidr1, cidr2) == OverlapOfEnds(Ends(parseCIDR(cidr1), parseCIDR(cidr2)))

\* childStart >= parentStart && childEnd <= parentEnd
RangeWithin(childStart, childEnd, parentStart, parentEnd) ==
    Ge(childStart, parentStart) /\ Le(childEnd, parentEnd)

WithinOfEnds(e) == RangeWithin(e[1], e[2], e[3], e[4])

isChildOfParent(childCidr, parentCidr) ==
    WithinOfEnds(Ends(parseCIDR(childCidr), parseCIDR(parentCidr)))

getNetworkAddress(ip, prefix) ==
    numberToIp(Num(Network(ipToNumber(ip), PrefixMask(prefix))))

\* `${network}/${prefix}`
CidrOf(network, prefix) == network \o "/" \o NumToString(prefix)

\* [ip, prefixStr] = cidr.split('/'), prefix = parseInt(prefixStr, 10)
NormalizeParts(ip, prefix) == CidrOf(getNetworkAddress(ip, prefix), prefix)

normalizeCIDR(cidr) ==
    NormalizeParts(At(Split(cidr, "/"), 0), parseInt(At(Split(cidr, "/"), 1)))

(***************************************************************************)
(* The inputs of the model.                                                *)
(***************************************************************************)
\* what the user types into the CIDR field, in Spec
CidrInputs == {"", "10.0.0.0/7", "10.0.0.0/8", "10.0.0.5/24"}

\* what the user types into the CIDR field, in SeqSpec
SeqCidrInputs == {"", "10.0.0.0/7", "10.0.0.0/8", "10.0.0.0/16", "10.0.0.5/24"}

\* what the user types into the name field
NameInputs == {"", "net"}

\* the strings handed to the CIDR functions of ip-utils.ts when they are called
\* directly: well-formed blocks below and above 128.0.0.0, and malformed strings
LibCidrs ==
    {"10.0.0.0/8", "10.0.0.0/16", "10.0.0.5/24", "10.1.0.0/16", "127.0.0.0/8",
     "128.0.0.0/8", "192.168.0.0/16", "192.168.1.77/24", "200.1.2.3/30",
     "255.255.255.255/32",
     "", "10.0.0.0", "10.0.0.0/7", "10.0.0.0/33", "10.0.0/24", "10.0.0.256/24",
     "10.0.0.0/24/1", "10.0.0.5a/24", "10.0.0.0/24x", " 10.0.0.0/24", "10.0.0.0/ 24",
     "10.0.0.0/24 ", "10.0.0.0/", "10.0..0/24"}

\* the addresses handed to ipToNumber
LibIps == {"0.0.0.0", "10.0.0.1", "127.255.255.255", "128.0.0.0", "192.168.0.1",
           "255.255.255.255"}

\* the cidrs of the rows of a stored table: a /16, its two halves, a /24 in one
TreeCidrs == {"10.0.0.0/16", "10.0.0.0/17", "10.0.128.0/17", "10.0.0.0/24"}

\* every string the cidr of the form or of a row can hold
CidrStrings ==
    LET typed == CidrInputs \cup SeqCidrInputs
    IN  typed \cup {normalizeCIDR(c) : c \in {t \in typed : isValidCIDR(t)}} \cup TreeCidrs

(***************************************************************************)
(* The functions of ip-utils.ts tabulated over CidrStrings, so that a step *)
(* looks a result up instead of parsing the strings again.                 *)
(***************************************************************************)
ValidTable == [c \in CidrStrings |-> isValidCIDR(c)]

NormalTable == [c \in CidrStrings |-> normalizeCIDR(c)]

ParseTable == [c \in CidrStrings |-> parseCIDR(c)]

OverlapTable == [a \in CidrStrings |-> [b \in CidrStrings |-> cidrsOverlap(a, b)]]

ChildTable == [a \in CidrStrings |-> [b \in CidrStrings |-> isChildOfParent(a, b)]]

(***************************************************************************)
(* src/src/lib/db.ts : the ip_pools table.  A row is                       *)
(* [id, name, cidr, description, parentId, createdAt]; a NULL parent_id is *)
(* Null and a NULL description is the empty string.                        *)
(***************************************************************************)
Null == 0

\* the row of table with this id, as a set (empty when there is none)
RowsById(table, id) == {r \in table : r.id = id}

RECURSIVE CascadeFrom(_, _)
\* ids together with the ids of all rows that reference them, transitively
CascadeFrom(table, ids) ==
    LET more == {r.id : r \in {q \in table : q.parentId \in ids}} \ ids
    IN  IF more = {} THEN ids ELSE CascadeFrom(table, ids \cup more)

\* INSERT INTO ip_pools (name, cidr, description, parent_id): the statement fails
\* on UNIQUE(cidr) and, with foreign keys enforced, on a parent_id that
\* references no row; the new row takes the AUTOINCREMENT id and datetime('now').
\* description is `pool.description || null'.
createPool(table, pool, id, at, fk) ==
    LET parent  == IF pool.parentId = Null THEN Null ELSE pool.parentId
        text    == IF "description" \in DOMAIN pool THEN pool.description ELSE ""
        unique  == \A r \in table : r.cidr # pool.cidr
        fkHolds == ~fk \/ parent = Null \/ RowsById(table, parent) # {}
    IN  IF unique /\ fkHolds
        THEN [ok |-> TRUE,
              table |-> table \cup {[id |-> id, name |-> pool.name, cidr |-> pool.cidr,
                                     description |-> text, parentId |-> parent,
                                     createdAt |-> at]}]
        ELSE [ok |-> FALSE, table |-> table]

\* an UPDATE that sets every column that updates carries
updatePoolAnyField(table, id, updates) ==
    LET fields == {"name", "description", "cidr", "parentId"} \cap DOMAIN updates
        Set(r) == [f \in DOMAIN r |-> IF f \in fields THEN updates[f] ELSE r[f]]
    IN  IF fields = {} THEN [ok |-> FALSE, table |-> table]
        ELSE [ok |-> RowsById(table, id) # {},
              table |-> {IF r.id = id THEN Set(r) ELSE r : r \in table}]

\* updatePool(id, updates): `name = ?' and `description = ?' for the fields of
\* updates that are not undefined (the fields updates carries); false without
\* a statement when there is none; else UPDATE ip_pools SET ... WHERE id = ?
\* and changes() > 0, which is whether a row has this id.
updatePool(table, id, updates) ==
    LET fields == {"name", "description"} \cap DOMAIN updates
        Set(r) == [f \in DOMAIN r |-> IF f \in fields THEN updates[f] ELSE r[f]]
    IN  IF fields = {} THEN [ok |-> FALSE, table |-> table]
        ELSE [ok |-> RowsById(table, id) # {},
              table |-> {IF r.id = id THEN Set(r) ELSE r : r \in table}]

\* DELETE FROM ip_pools WHERE id = ?.  ON DELETE CASCADE removes the referencing
\* rows only when the connection enforces foreign keys.
deletePool(table, id, fk) ==
    IF fk THEN {r \in table : r.id \notin CascadeFrom(table, {id})}
    ELSE {r \in table : r.id # id}

\* SELECT COUNT(*) FROM ip_pools WHERE cidr = ?  (excludeId is never passed)
cidrExists(table, cidr) == Cardinality({r \in table : r.cidr = cidr}) > 0

\* SELECT * FROM ip_pools ORDER BY created_at DESC: every listing of the rows in
\* which created_at never increases (rows of the same second come in any order)
getAllPools(table) ==
    LET n == Cardinality(table)
    IN  {s \in [1..n -> table] :
            /\ \A i, j \in 1..n : i # j => s[i] # s[j]
            /\ \A i, j \in 1..n : i < j => s[i].createdAt >= s[j].createdAt}

(***************************************************************************)
(* The IPAMManager component (src/README.md).                              *)
(***************************************************************************)
\* pools.find(p => p.id === id), as a sequence of at most one pool
RECURSIVE FindFrom(_, _, _)
FindFrom(list, id, i) ==
    IF i > Len(list) THEN <<>>
    ELSE IF list[i].id = id THEN <<list[i]>> ELSE FindFrom(list, id, i + 1)

Find(list, id) == FindFrom(list, id, 1)

\* the ids of a list of pools
IdsOf(list) == {list[i].id : i \in 1..Len(list)}

RECURSIVE InitNodes(_, _, _)
\* allPools.forEach(pool => poolMap.set(pool.id, {...pool, children: [],
\*   totalIps: info.totalIps, usedIps: 0, level: 0}))
InitNodes(allPools, i, poolMap) ==
    IF i > Len(allPools) THEN poolMap
    ELSE LET pool == allPools[i]
             info == ParseTable[pool.cidr]
             node == [id |-> pool.id, cidr |-> pool.cidr, parentId |-> pool.parentId,
                      children |-> <<>>, totalIps |-> info.totalIps,
                      usedIps |-> Num(0), level |-> 0]
         IN  InitNodes(allPools, i + 1,
                       [k \in DOMAIN poolMap \cup {pool.id} |->
                           IF k = pool.id THEN node ELSE poolMap[k]])

RECURSIVE LinkNodes(_, _, _)
\* the second pass: a root is pushed to rootNodes; another pool takes
\* parent.level + 1 and is pushed to parent.children when poolMap has the parent
LinkNodes(allPools, i, t) ==
    IF i > Len(allPools) THEN t
    ELSE LET pool == allPools[i]
         IN  IF pool.parentId = Null
             THEN LinkNodes(allPools, i + 1,
                            [t EXCEPT !.rootNodes = Append(@, pool.id)])
             ELSE IF pool.parentId \in DOMAIN t.poolMap
             THEN LinkNodes(allPools, i + 1,
                            [t EXCEPT !.poolMap[pool.id].level =
                                            t.poolMap[pool.parentId].level + 1,
                                      !.poolMap[pool.parentId].children =
                                            Append(@, pool.id)])
             ELSE LinkNodes(allPools, i + 1, t)

RECURSIVE calculateUsedIps(_, _)
RECURSIVE UsedOfChildren(_, _, _, _)
RECURSIVE UsedOfDescendants(_, _, _, _)
\* the aggregation that adds child.totalIps + child.usedIps for every child
UsedOfDescendants(poolMap, kids, i, used) ==
    IF i > Len(kids) THEN [poolMap |-> poolMap, used |-> used]
    ELSE UsedOfDescendants(
             [calculateUsedIps(poolMap, kids[i]).poolMap
                 EXCEPT ![kids[i]].usedIps = calculateUsedIps(poolMap, kids[i]).used],
             kids, i + 1,
             Add(Add(used, poolMap[kids[i]].totalIps),
                 calculateUsedIps(poolMap, kids[i]).used))

\* node.children.forEach(child => { used += child.totalIps;
\*                                  child.usedIps = calculateUsedIps(child) })
UsedOfChildren(poolMap, kids, i, used) ==
    IF i > Len(kids) THEN [poolMap |-> poolMap, used |-> used]
    ELSE LET child == kids[i]
             r     == calculateUsedIps(poolMap, child)
         IN  UsedOfChildren([r.poolMap EXCEPT ![child].usedIps = r.used], kids, i + 1,
                            Add(used, poolMap[child].totalIps))

\* node.usedIps = used; return used
calculateUsedIps(poolMap, id) ==
    LET r == UsedOfChildren(poolMap, poolMap[id].children, 1, Num(0))
    IN  [poolMap |-> [r.poolMap EXCEPT ![id].usedIps = r.used], used |-> r.used]

RECURSIVE UsedOfRoots(_, _, _)
\* rootNodes.forEach(calculateUsedIps)
UsedOfRoots(poolMap, roots, i) ==
    IF i > Len(roots) THEN poolMap
    ELSE UsedOfRoots(calculateUsedIps(poolMap, roots[i]).poolMap, roots, i + 1)

\* the tree handed to setPoolTree: the root nodes (by id) and the node objects
buildPoolTree(allPools) ==
    LET nodes  == InitNodes(allPools, 1, <<>>)
        linked == LinkNodes(allPools, 1, [rootNodes |-> <<>>, poolMap |-> nodes])
    IN  [rootNodes |-> linked.rootNodes,
         poolMap   |-> UsedOfRoots(linked.poolMap, linked.rootNodes, 1)]

RECURSIVE Below(_, _)
\* the nodes reachable from the nodes ids over children
Below(tree, ids) ==
    LET kids == UNION {{tree.poolMap[n].children[i] :
                            i \in 1..Len(tree.poolMap[n].children)} : n \in ids} \ ids
    IN  IF kids = {} THEN ids ELSE Below(tree, ids \cup kids)

\* the nodes of the forest: what renderPoolNode draws
ForestNodes(tree) == Below(tree, {tree.rootNodes[i] : i \in 1..Len(tree.rootNodes)})

\* renderPoolNode: availableIps = node.totalIps - node.usedIps
availableIps(node) == Sub(node.totalIps, node.usedIps)

\* renderPoolNode: usagePercent = (node.usedIps / node.totalIps) * 100 is above
\* percent (totalIps is positive)
usagePercentAbove(node, percent) ==
    Val(node.usedIps) * 100 > percent * Val(node.totalIps)

ErrInvalid == "Invalid CIDR format. Use format like 10.0.0.0/24"

ErrExists == "This CIDR range already exists"

ErrNotChild == "Child pool must be within parent pool range"

ErrOverlap(sibling) ==
    "Overlaps with existing pool: " \o sibling.name \o " (" \o sibling.cidr \o ")"

ErrRequired == "Name and CIDR are required"

ErrFailed == "Failed to create pool"

\* validateCIDR up to its await: an empty cidr clears the error, a malformed one
\* sets it, a well-formed one is normalized (in the form too) and the run
\* suspends at `await cidrExists(cidr)'
validateCIDRSync(cidr) ==
    IF cidr = "" THEN [suspends |-> FALSE, error |-> "", cidr |-> cidr]
    ELSE IF ~ValidTable[cidr] THEN [suspends |-> FALSE, error |-> ErrInvalid, cidr |-> cidr]
    ELSE [suspends |-> TRUE, error |-> "", cidr |-> NormalTable[cidr]]

RECURSIVE FirstOverlap(_, _, _, _)
\* for (const sibling of siblings) if (cidrsOverlap(cidr, sibling.cidr)) ...
FirstOverlap(cidr, parentId, list, i) ==
    IF i > Len(list) THEN ""
    ELSE IF list[i].parentId = parentId /\ OverlapTable[cidr][list[i].cidr]
    THEN ErrOverlap(list[i])
    ELSE FirstOverlap(cidr, parentId, list, i + 1)

\* the parent check: skipped when parentId is null or names no pool of the list
ParentError(cidr, parentId, list) ==
    IF parentId # Null
    THEN LET parent == Find(list, parentId)
         IN  parent # <<>> /\ ~ChildTable[cidr][parent[1].cidr]
    ELSE FALSE

\* validateCIDR from its await on with the parent check made before the
\* duplicate check
validateCIDRParentFirst(cidr, parentId, list, table) ==
    IF ParentError(cidr, parentId, list) THEN ErrNotChild
    ELSE IF cidrExists(table, cidr) THEN ErrExists
    ELSE FirstOverlap(cidr, parentId, list, 1)

\* validateCIDR from its await on: the value of validationError it sets.  The
\* table is read by cidrExists; list is the `pools' of the render that made the call
validateCIDRAfterAwait(cidr, parentId, list, table) ==
    IF cidrExists(table, cidr) THEN ErrExists
    ELSE IF ParentError(cidr, parentId, list) THEN ErrNotChild
    ELSE FirstOverlap(cidr, parentId, list, 1)

\* validateCIDR(cidr, parentId) run from its call to its end without a step of
\* anything else in between: the value validationError has when it returns
validateCIDR(cidr, parentId, list, table) ==
    IF validateCIDRSync(cidr).suspends
    THEN validateCIDRAfterAwait(validateCIDRSync(cidr).cidr, parentId, list, table)
    ELSE validateCIDRSync(cidr).error

\* the parentId handleParentChange computes from the option's value
ParentOfOption(value) == IF value # "" THEN Val(parseInt(value)) ELSE Null

\* the values of the <option>s of the parent select
ParentOptions(list) == {""} \cup {NumToString(Num(id)) : id \in IdsOf(list)}

EmptyForm == [name |-> "", cidr |-> "", parentId |-> Null]

(***************************************************************************)
(* State.                                                                  *)
(***************************************************************************)
VARIABLES
    db,               \* the rows of ip_pools
    nextId,           \* the next AUTOINCREMENT id
    now,              \* the clock behind datetime('now'), in seconds
    foreignKeys,      \* whether the SQLite build enforces foreign keys
    pools,            \* useState: the list loadPools read last
    poolTree,         \* useState: the tree buildPoolTree made of it
    isDialogOpen,     \* useState: the create dialog
    formData,         \* useState: [name, cidr, parentId]
    validationError,  \* useState: the diagnostic shown under the CIDR field
    tasks,            \* the asynchronous calls suspended at an await (a bag)
    args,             \* the arguments of the calls made to the library directly
    ret               \* the last such call: [fn, value]

vars == <<db, nextId, now, foreignKeys, pools, poolTree, isDialogOpen, formData,
          validationError, tasks, args, ret>>

dbVars == <<db, nextId, now, foreignKeys>>

listVars == <<pools, poolTree>>

libVars == <<args, ret>>

\* no call has been made to the library directly
NoArgs == [cidr1 |-> "", cidr2 |-> "", ip |-> ""]

NoCall == [fn |-> "", value |-> FALSE]

\* what a call leaves behind
Call(fn, value) == [fn |-> fn, value |-> value]

\* a suspended call: the function, and what its arguments and closure hold
Task(kind, name, cidr, parentId, id, list) ==
    [kind |-> kind, name |-> name, cidr |-> cidr, parentId |-> parentId, id |-> id,
     pools |-> list]

\* validateCIDR(cidr, parentId) at `await cidrExists(cidr)', with the pools of its render
ValidateTask(cidr, parentId, list) == Task("validateCIDR", "", cidr, parentId, Null, list)

\* handleSubmit at `await createPool({name, cidr, parentId})'
SubmitTask(form) == Task("handleSubmit", form.name, form.cidr, form.parentId, Null, <<>>)

\* handleDelete(id) at `await deletePool(id)'
DeleteTask(id) == Task("handleDelete", "", "", Null, id, <<>>)

\* loadPools at `await getAllPools()'
LoadTask == Task("loadPools", "", "", Null, Null, <<>>)

Spawn(bag, t) == bag (+) SetToBag({t})

Retire(bag, t) == bag (-) SetToBag({t})

InFlight == BagCardinality(tasks)

\* the suspended calls of one function
InFlightOf(kind) ==
    BagCardinality([t \in {u \in BagToSet(tasks) : u.kind = kind} |-> tasks[t]])

\* the inserts that the suspended handleSubmit calls may still make
SubmitsInFlight == InFlightOf("handleSubmit")

\* a further validateCIDR call may suspend
MaySuspendValidation == InFlight < MaxTasks /\ InFlightOf("validateCIDR") < MaxValidations

\* the database is opened empty, without PRAGMA foreign_keys: whether foreign
\* keys are enforced is the build's default.  The first loadPools has run.
Init ==
    /\ db = {}
    /\ nextId = 1
    /\ now = 0
    /\ foreignKeys \in BOOLEAN
    /\ pools = <<>>
    /\ poolTree = buildPoolTree(<<>>)
    /\ isDialogOpen = FALSE
    /\ formData = EmptyForm
    /\ validationError = ""
    /\ tasks = EmptyBag
    /\ args = NoArgs
    /\ ret = NoCall

(***************************************************************************)
(* The dialog and the name field.                                          *)
(***************************************************************************)
\* the Create Pool trigger
OpenDialog ==
    /\ ~isDialogOpen
    /\ isDialogOpen' = TRUE
    /\ UNCHANGED <<dbVars, listVars, formData, validationError, tasks, libVars>>

\* onOpenChange(false): Escape, the close button, a click outside; the form stays
CloseDialog ==
    /\ isDialogOpen
    /\ isDialogOpen' = FALSE
    /\ UNCHANGED <<dbVars, listVars, formData, validationError, tasks, libVars>>

\* the Cancel button
Cancel ==
    /\ isDialogOpen
    /\ isDialogOpen' = FALSE
    /\ formData' = EmptyForm
    /\ validationError' = ""
    /\ UNCHANGED <<dbVars, listVars, tasks, libVars>>

\* the name field's onChange
HandleNameChange(value) ==
    /\ isDialogOpen
    /\ formData' = [formData EXCEPT !.name = value]
    /\ UNCHANGED <<dbVars, listVars, isDialogOpen, validationError, tasks, libVars>>

(***************************************************************************)
(* Spec: every await is a point where other handlers and other suspended   *)
(* calls may run.  A call to db.ts acts on the table when it resumes.      *)
(***************************************************************************)
\* handleCIDRChange(value): setFormData, then validateCIDR(value, formData.parentId)
handleCIDRChange(value) ==
    LET v == validateCIDRSync(value)
    IN  /\ isDialogOpen
        /\ formData' = [formData EXCEPT !.cidr = v.cidr]
        /\ IF v.suspends
           THEN /\ MaySuspendValidation
                /\ tasks' = Spawn(tasks, ValidateTask(v.cidr, formData.parentId, pools))
                /\ UNCHANGED validationError
           ELSE /\ validationError' = v.error
                /\ UNCHANGED tasks
        /\ UNCHANGED <<dbVars, listVars, isDialogOpen, libVars>>

\* handleParentChange(value): setFormData, then validateCIDR(formData.cidr, parentId)
\* if the form has a cidr
handleParentChange(value) ==
    LET parentId == ParentOfOption(value)
        v        == validateCIDRSync(formData.cidr)
    IN  /\ isDialogOpen
        /\ formData' = [formData EXCEPT !.parentId = parentId, !.cidr = v.cidr]
        /\ IF formData.cidr = ""
           THEN UNCHANGED <<validationError, tasks>>
           ELSE IF v.suspends
           THEN /\ MaySuspendValidation
                /\ tasks' = Spawn(tasks, ValidateTask(v.cidr, parentId, pools))
                /\ UNCHANGED validationError
           ELSE /\ validationError' = v.error
                /\ UNCHANGED tasks
        /\ UNCHANGED <<dbVars, listVars, isDialogOpen, libVars>>

\* validateCIDR resumes after `await cidrExists(cidr)'
ResumeValidateCIDR(t) ==
    /\ t.kind = "validateCIDR"
    /\ validationError' = validateCIDRAfterAwait(t.cidr, t.parentId, t.pools, db)
    /\ tasks' = Retire(tasks, t)
    /\ UNCHANGED <<dbVars, listVars, isDialogOpen, formData, libVars>>

\* the submit button is enabled: the form's onSubmit fires (by the button or by
\* Enter in a field) only then
SubmitEnabled == validationError = "" /\ formData.name # "" /\ formData.cidr # ""

\* handleSubmit up to `await createPool(...)'
handleSubmit ==
    /\ isDialogOpen
    /\ SubmitEnabled
    /\ IF validationError # ""
       THEN UNCHANGED <<validationError, tasks>>
       ELSE IF formData.name = "" \/ formData.cidr = ""
       THEN /\ validationError' = ErrRequired
            /\ UNCHANGED tasks
       ELSE /\ InFlight < MaxTasks
            /\ nextId + SubmitsInFlight <= MaxPools
            /\ tasks' = Spawn(tasks, SubmitTask(formData))
            /\ UNCHANGED validationError
    /\ UNCHANGED <<dbVars, listVars, isDialogOpen, formData, libVars>>

\* handleSubmit resumes: createPool has inserted the row, the form is reset and
\* loadPools is called; or createPool has thrown
ResumeHandleSubmit(t, at) ==
    LET r == createPool(db, t, nextId, at, foreignKeys)
    IN  /\ t.kind = "handleSubmit"
        /\ IF r.ok
           THEN /\ db' = r.table
                /\ nextId' = nextId + 1
                /\ now' = at
                /\ isDialogOpen' = FALSE
                /\ formData' = EmptyForm
                /\ validationError' = ""
                /\ tasks' = Spawn(Retire(tasks, t), LoadTask)
           ELSE /\ validationError' = ErrFailed
                /\ tasks' = Retire(tasks, t)
                /\ UNCHANGED <<db, nextId, now, isDialogOpen, formData>>
        /\ UNCHANGED <<foreignKeys, listVars, libVars>>

\* handleDelete(id), from the card of a node that is drawn, confirmed, up to
\* `await deletePool(id)'
handleDelete(id) ==
    /\ ~isDialogOpen
    /\ id \in ForestNodes(poolTree)
    /\ InFlight < MaxTasks
    /\ tasks' = Spawn(tasks, DeleteTask(id))
    /\ UNCHANGED <<dbVars, listVars, isDialogOpen, formData, validationError, libVars>>

\* handleDelete resumes: the row is deleted and loadPools is called
ResumeHandleDelete(t) ==
    /\ t.kind = "handleDelete"
    /\ db' = deletePool(db, t.id, foreignKeys)
    /\ tasks' = Spawn(Retire(tasks, t), LoadTask)
    /\ UNCHANGED <<nextId, now, foreignKeys, listVars, isDialogOpen, formData,
                   validationError, libVars>>

\* loadPools resumes after `await getAllPools()': setPools, buildPoolTree
ResumeLoadPools(t, allPools) ==
    /\ t.kind = "loadPools"
    /\ pools' = allPools
    /\ poolTree' = buildPoolTree(allPools)
    /\ tasks' = Retire(tasks, t)
    /\ UNCHANGED <<dbVars, isDialogOpen, formData, validationError, libVars>>

Next ==
    \/ OpenDialog
    \/ CloseDialog
    \/ Cancel
    \/ \E value \in NameInputs : HandleNameChange(value)
    \/ \E value \in CidrInputs : handleCIDRChange(value)
    \/ \E value \in ParentOptions(pools) : handleParentChange(value)
    \/ handleSubmit
    \/ \E id \in DOMAIN poolTree.poolMap : handleDelete(id)
    \/ \E t \in BagToSet(tasks) : ResumeValidateCIDR(t)
    \/ \E t \in BagToSet(tasks), at \in {now, now + 1} : ResumeHandleSubmit(t, at)
    \/ \E t \in BagToSet(tasks) : ResumeHandleDelete(t)
    \/ \E t \in BagToSet(tasks), allPools \in getAllPools(db) : ResumeLoadPools(t, allPools)

Spec == Init /\ [][Next]_vars

(***************************************************************************)
(* SeqSpec: the schedule in which every asynchronous call runs to its end  *)
(* before the next event, so a handler and all it awaits are one step.     *)
(***************************************************************************)
SeqCIDRChange(value) ==
    LET v == validateCIDRSync(value)
    IN  /\ isDialogOpen
        /\ formData' = [formData EXCEPT !.cidr = v.cidr]
        /\ validationError' = validateCIDR(value, formData.parentId, pools, db)
        /\ UNCHANGED <<dbVars, listVars, isDialogOpen, tasks, libVars>>

SeqParentChange(value) ==
    LET parentId == ParentOfOption(value)
        v        == validateCIDRSync(formData.cidr)
    IN  /\ isDialogOpen
        /\ formData' = [formData EXCEPT !.parentId = parentId, !.cidr = v.cidr]
        /\ validationError' =
               IF formData.cidr = "" THEN validationError
               ELSE validateCIDR(formData.cidr, parentId, pools, db)
        /\ UNCHANGED <<dbVars, listVars, isDialogOpen, tasks, libVars>>

\* handleSubmit with createPool and, after an insert, loadPools
SeqSubmit(at) ==
    LET r == createPool(db, formData, nextId, at, foreignKeys)
    IN  /\ isDialogOpen
        /\ SubmitEnabled
        /\ IF validationError # ""
           THEN UNCHANGED <<db, nextId, now, listVars, isDialogOpen, formData,
                            validationError>>
           ELSE IF formData.name = "" \/ formData.cidr = ""
           THEN /\ validationError' = ErrRequired
                /\ UNCHANGED <<db, nextId, now, listVars, isDialogOpen, formData>>
           ELSE IF r.ok
           THEN /\ nextId <= MaxSeqPools
                /\ db' = r.table
                /\ nextId' = nextId + 1
                /\ now' = at
                /\ isDialogOpen' = FALSE
                /\ formData' = EmptyForm
                /\ validationError' = ""
                /\ \E allPools \in getAllPools(r.table) :
                       /\ pools' = allPools
                       /\ poolTree' = buildPoolTree(allPools)
           ELSE /\ validationError' = ErrFailed
                /\ UNCHANGED <<db, nextId, now, listVars, isDialogOpen, formData>>
        /\ UNCHANGED <<foreignKeys, tasks, libVars>>

\* handleDelete with deletePool and loadPools
SeqDelete(id) ==
    /\ ~isDialogOpen
    /\ id \in ForestNodes(poolTree)
    /\ db' = deletePool(db, id, foreignKeys)
    /\ \E allPools \in getAllPools(db') :
           /\ pools' = allPools
           /\ poolTree' = buildPoolTree(allPools)
    /\ UNCHANGED <<nextId, now, foreignKeys, isDialogOpen, formData, validationError,
                   tasks, libVars>>

SeqNext ==
    \/ OpenDialog
    \/ CloseDialog
    \/ Cancel
    \/ \E value \in NameInputs : HandleNameChange(value)
    \/ \E value \in SeqCidrInputs : SeqCIDRChange(value)
    \/ \E value \in ParentOptions(pools) : SeqParentChange(value)
    \/ \E at \in {now, now + 1} : SeqSubmit(at)
    \/ \E id \in DOMAIN poolTree.poolMap : SeqDelete(id)

SeqSpec == Init /\ [][SeqNext]_vars

(***************************************************************************)
(* LibSpec: the exported functions of ip-utils.ts called directly, on      *)
(* arguments drawn from LibCidrs and LibIps.  The component is mounted and *)
(* idle.                                                                   *)
(***************************************************************************)
LibInit ==
    /\ db = {}
    /\ nextId = 1
    /\ now = 0
    /\ foreignKeys \in BOOLEAN
    /\ pools = <<>>
    /\ poolTree = buildPoolTree(<<>>)
    /\ isDialogOpen = FALSE
    /\ formData = EmptyForm
    /\ validationError = ""
    /\ tasks = EmptyBag
    /\ args \in [cidr1 : LibCidrs, cidr2 : LibCidrs, ip : LibIps]
    /\ ret = NoCall

\* the variables of the component and of the table
appVars == <<dbVars, listVars, isDialogOpen, formData, validationError, tasks>>

CallIsValidCIDR ==
    /\ ret' = Call("isValidCIDR", isValidCIDR(args.cidr1))
    /\ UNCHANGED <<appVars, args>>

\* parseCIDR, cidrsOverlap and isChildOfParent are called on what isValidCIDR accepts
CallParseCIDR ==
    /\ isValidCIDR(args.cidr1)
    /\ ret' = Call("parseCIDR", parseCIDR(args.cidr1))
    /\ UNCHANGED <<appVars, args>>

CallCidrsOverlap ==
    /\ isValidCIDR(args.cidr1) /\ isValidCIDR(args.cidr2)
    /\ ret' = Call("cidrsOverlap", cidrsOverlap(args.cidr1, args.cidr2))
    /\ UNCHANGED <<appVars, args>>

CallIsChildOfParent ==
    /\ isValidCIDR(args.cidr1) /\ isValidCIDR(args.cidr2)
    /\ ret' = Call("isChildOfParent", isChildOfParent(args.cidr1, args.cidr2))
    /\ UNCHANGED <<appVars, args>>

CallIpToNumber ==
    /\ ret' = Call("ipToNumber", ipToNumber(args.ip))
    /\ UNCHANGED <<appVars, args>>

LibNext ==
    \/ CallIsValidCIDR
    \/ CallParseCIDR
    \/ CallCidrsOverlap
    \/ CallIsChildOfParent
    \/ CallIpToNumber

LibSpec == LibInit /\ [][LibNext]_vars

(***************************************************************************)
(* StoreSpec: createPool, updatePool and deletePool of db.ts called        *)
(* directly, each call run to its end, within one second of the clock.     *)
(***************************************************************************)
\* the pools handed to createPool when db.ts is called directly
StorePools ==
    [name : {"net"}, cidr : {"10.0.0.0/8", "10.0.0.0/16"}, parentId : 0..MaxStoreRows]

\* an updates object with every field of IPPool
FullUpdate ==
    [name |-> "lan", description |-> "uplink", cidr |-> "10.9.0.0/16", parentId |-> Null,
     id |-> 9, createdAt |-> 9]

\* the updates handed to updatePool: every choice of name, description, cidr and
\* parentId, and the object with every field
StoreUpdates ==
    {[f \in fields |-> FullUpdate[f]] :
        fields \in SUBSET {"name", "description", "cidr", "parentId"}} \cup {FullUpdate}

CallCreatePool(pool) ==
    LET r == createPool(db, pool, nextId, now, foreignKeys)
    IN  /\ nextId <= MaxStoreRows
        /\ db' = r.table
        /\ nextId' = IF r.ok THEN nextId + 1 ELSE nextId
        /\ args' = [pool |-> pool]
        /\ ret' = Call("createPool", r.ok)
        /\ UNCHANGED <<now, foreignKeys, listVars, isDialogOpen, formData,
                       validationError, tasks>>

CallUpdatePool(id, updates) ==
    LET r == updatePool(db, id, updates)
    IN  /\ db' = r.table
        /\ args' = [id |-> id, updates |-> updates]
        /\ ret' = Call("updatePool", r.ok)
        /\ UNCHANGED <<nextId, now, foreignKeys, listVars, isDialogOpen, formData,
                       validationError, tasks>>

CallDeletePool(id) ==
    /\ db' = deletePool(db, id, foreignKeys)
    /\ args' = [id |-> id]
    /\ ret' = Call("deletePool", TRUE)
    /\ UNCHANGED <<nextId, now, foreignKeys, listVars, isDialogOpen, formData,
                   validationError, tasks>>

StoreNext ==
    \/ \E pool \in StorePools : CallCreatePool(pool)
    \/ \E id \in 1..MaxStoreRows, updates \in StoreUpdates : CallUpdatePool(id, updates)
    \/ \E id \in 1..MaxStoreRows : CallDeletePool(id)

StoreSpec == Init /\ [][StoreNext]_vars

(***************************************************************************)
(* TreeSpec: the component is mounted on a table stored by earlier         *)
(* sessions; its first loadPools is suspended at `await getAllPools()'.    *)
(***************************************************************************)
\* the tables of n rows: ids 1..n, one row a second, every row with its own
\* cidr of TreeCidrs and with no parent or an older row as its parent
TreeRows(n) ==
    {{[id |-> i, name |-> "net", cidr |-> c[i], description |-> "",
       parentId |-> parent[i], createdAt |-> i] : i \in 1..n} :
        c \in {f \in [1..n -> TreeCidrs] : \A i, j \in 1..n : i # j => f[i] # f[j]},
        parent \in {g \in [1..n -> 0..MaxTreePools] : \A i \in 1..n : g[i] < i}}

TreeTables == UNION {TreeRows(n) : n \in 0..MaxTreePools}

TreeInit ==
    /\ db \in TreeTables
    /\ nextId = Cardinality(db) + 1
    /\ now = Cardinality(db)
    /\ foreignKeys \in BOOLEAN
    /\ pools = <<>>
    /\ poolTree = buildPoolTree(<<>>)
    /\ isDialogOpen = FALSE
    /\ formData = EmptyForm
    /\ validationError = ""
    /\ tasks = SetToBag({LoadTask})
    /\ args = NoArgs
    /\ ret = NoCall

TreeNext == \E t \in BagToSet(tasks), allPools \in getAllPools(db) : ResumeLoadPools(t, allPools)

TreeSpec == TreeInit /\ [][TreeNext]_vars

(***************************************************************************)
(* Properties of the stored pools.                                         *)
(***************************************************************************)
\* C1: no two stored pools with the same parentId (two root pools included)
\* have overlapping [network, broadcast] ranges.
C1_SiblingsDisjoint ==
    \A r, q \in db :
        (r.id # q.id /\ r.parentId = q.parentId) => ~OverlapTable[r.cidr][q.cidr]

\* C2: the range of every stored pool with a parent lies within the range of
\* the pool its parentId references.
C2_ChildWithinParent ==
    \A r \in db : \A q \in RowsById(db, r.parentId) :
        r.parentId # Null => ChildTable[r.cidr][q.cidr]

\* C3: a deletion removes the pool with all its descendants, so that after it
\* every non-null parentId of the table references a row of the table.
C3_DeleteCascades ==
    [][(db' # db /\ db' \subseteq db)
          => \A r \in db' : r.parentId = Null \/ RowsById(db', r.parentId) # {}]_vars

\* C4: whatever a step persists is a candidate whose own validation succeeded:
\* every row a step adds to the table has a cidr and parentId that pass every
\* check of validateCIDR on the table and the pool list of that step.
C4_PersistedWasValidated ==
    [][\A r \in db' \ db :
           r.cidr # "" /\ validateCIDR(r.cidr, r.parentId, pools, db) = ""]_vars

\* C10: every stored cidr passes isValidCIDR and is its own normal form.
C10_StoredCidrNormalized ==
    \A r \in db : ValidTable[r.cidr] /\ NormalTable[r.cidr] = r.cidr

(***************************************************************************)
(* Properties of validateCIDR.                                             *)
(***************************************************************************)
\* the parentIds a candidate can carry
ParentIds == 0..MaxSeqPools

\* the cidr the checks after the format check look at
Normalized(cidr) == IF ValidTable[cidr] THEN NormalTable[cidr] ELSE cidr

\* the siblings of the list that overlap the candidate, by position
OverlappingAt(cidr, parentId, list) ==
    {i \in 1..Len(list) :
        list[i].parentId = parentId /\ OverlapTable[Normalized(cidr)][list[i].cidr]}

\* check k of the candidate fails: 1 format, 2 duplicate CIDR, 3 parent
\* containment (of a parent that the list holds), 4 sibling overlap
CheckFails(k, cidr, parentId, list, table) ==
    CASE k = 1 -> ~ValidTable[cidr]
      [] k = 2 -> \E r \in table : r.cidr = Normalized(cidr)
      [] k = 3 -> \E i \in 1..Len(list) :
                     list[i].id = parentId /\ ~ChildTable[Normalized(cidr)][list[i].cidr]
      [] k = 4 -> OverlappingAt(cidr, parentId, list) # {}

\* the diagnostic of check k
Diagnostic(k, cidr, parentId, list) ==
    CASE k = 1 -> ErrInvalid
      [] k = 2 -> ErrExists
      [] k = 3 -> ErrNotChild
      [] k = 4 -> ErrOverlap(list[CHOOSE i \in OverlappingAt(cidr, parentId, list) :
                                     \A j \in OverlappingAt(cidr, parentId, list) : i <= j])

FailingChecks(cidr, parentId, list, table) ==
    {k \in 1..4 : CheckFails(k, cidr, parentId, list, table)}

\* the diagnostic of the earliest failing check, empty when every check passes
EarliestDiagnostic(cidr, parentId, list, table) ==
    IF FailingChecks(cidr, parentId, list, table) = {} THEN ""
    ELSE Diagnostic(CHOOSE k \in FailingChecks(cidr, parentId, list, table) :
                        \A j \in FailingChecks(cidr, parentId, list, table) : k <= j,
                    cidr, parentId, list)

\* C5 (as the code has it): for every candidate with a non-empty cidr,
\* validateCIDR sets the diagnostic of the earliest failing check in the order
\* format, duplicate CIDR, parent containment, sibling overlap, and the empty
\* diagnostic only if every check passes.
C5_EarliestFailingCheck ==
    \A cidr \in CidrStrings \ {""}, parentId \in ParentIds :
        validateCIDR(cidr, parentId, pools, db) = EarliestDiagnostic(cidr, parentId, pools, db)

\* C5, reached: the form shows the duplicate diagnostic for a candidate that
\* also lies outside its parent
C5_DuplicateOutsideParent ==
    /\ isDialogOpen
    /\ formData.cidr # ""
    /\ validationError = ErrExists
    /\ validateCIDR(formData.cidr, formData.parentId, pools, db) = ErrExists
    /\ CheckFails(3, formData.cidr, formData.parentId, pools, db)

\* C5 as stated: for every candidate, the empty cidr included, validateCIDR sets
\* the diagnostic of the earliest failing check, and the empty diagnostic only
\* if every check passes.
C5_EveryCandidate ==
    \A cidr \in CidrStrings, parentId \in ParentIds :
        validateCIDR(cidr, parentId, pools, db) = EarliestDiagnostic(cidr, parentId, pools, db)

\* C6: validateCIDR rejects every candidate whose parentId is present and names
\* no pool of the list: for the parentId of the form, no cidr is accepted.
C6_UnresolvedParentRejected ==
    (formData.parentId # Null /\ formData.parentId \notin IdsOf(pools))
        => \A cidr \in CidrStrings \ {""} :
               validateCIDR(cidr, formData.parentId, pools, db) # ""

(***************************************************************************)
(* Properties of buildPoolTree.                                            *)
(***************************************************************************)
RECURSIVE ChildrenTotal(_, _, _)
\* the sum of totalIps over kids[i], kids[i + 1], ...
ChildrenTotal(poolMap, kids, i) ==
    IF i > Len(kids) THEN Num(0)
    ELSE Add(poolMap[kids[i]].totalIps, ChildrenTotal(poolMap, kids, i + 1))

RECURSIVE DescendantsTotal(_, _, _)
\* the sum of totalIps over kids[i], kids[i + 1], ... and all their descendants
DescendantsTotal(poolMap, kids, i) ==
    IF i > Len(kids) THEN Num(0)
    ELSE Add(Add(poolMap[kids[i]].totalIps,
                 DescendantsTotal(poolMap, poolMap[kids[i]].children, 1)),
             DescendantsTotal(poolMap, kids, i + 1))

\* C7 (as the code has it): for every node of the forest, usedIps is the sum of
\* totalIps over the node's direct children; leaves have usedIps = 0.
C7_UsedIpsOfChildren ==
    \A n \in ForestNodes(poolTree) :
        poolTree.poolMap[n].usedIps =
            ChildrenTotal(poolTree.poolMap, poolTree.poolMap[n].children, 1)

\* C7, reached: the forest has a node with a grandchild, and its usedIps is
\* what its children add up to
C7_NodeWithGrandchild ==
    \E n \in ForestNodes(poolTree) :
        /\ \E i \in 1..Len(poolTree.poolMap[n].children) :
               poolTree.poolMap[poolTree.poolMap[n].children[i]].children # <<>>
        /\ poolTree.poolMap[n].usedIps # Num(0)
        /\ poolTree.poolMap[n].usedIps =
               ChildrenTotal(poolTree.poolMap, poolTree.poolMap[n].children, 1)

\* C7 as stated: for every node of the forest, usedIps is the sum of totalIps
\* over all of the node's descendants.
C7_UsedIpsOfDescendants ==
    \A n \in ForestNodes(poolTree) :
        poolTree.poolMap[n].usedIps =
            DescendantsTotal(poolTree.poolMap, poolTree.poolMap[n].children, 1)

RECURSIVE Hops(_, _)
\* the number of parentId hops from node n to its root
Hops(poolMap, n) ==
    IF poolMap[n].parentId = Null THEN 0 ELSE 1 + Hops(poolMap, poolMap[n].parentId)

\* C8: for every node of the forest, level is the number of parentId hops to
\* the node's root, whatever the order of the list the tree was built from.
C8_LevelIsHops ==
    \A n \in ForestNodes(poolTree) :
        poolTree.poolMap[n].level = Hops(poolTree.poolMap, n)

\* C9: a pool of the list whose parentId names no pool of the list is neither
\* dropped from the forest nor made a root without a report.  buildPoolTree
\* hands over the forest and nothing else, and throws nothing, so whatever it
\* does with such a pool it does silently.
C9_OrphanSurfaced ==
    \A i \in 1..Len(pools) :
        (pools[i].parentId # Null /\ pools[i].parentId \notin IdsOf(pools))
            => /\ pools[i].id \in ForestNodes(poolTree)
               /\ \A j \in 1..Len(poolTree.rootNodes) : poolTree.rootNodes[j] # pools[i].id

(***************************************************************************)
(* The claims about ip-utils.ts, checked under LibSpec.                    *)
(***************************************************************************)
\* s is a decimal numeral, nothing else, and its value is in lo..hi
DecimalIn(s, lo, hi) ==
    /\ Len(s) > 0
    /\ \A i \in 1..Len(s) : isDigit(Char(s, i))
    /\ Val(AllDigits(s, 0)) >= lo
    /\ Val(AllDigits(s, 0)) <= hi

\* s is four dot-separated decimal octets and nothing else
DottedQuad(s) ==
    /\ Len(Split(s, ".")) = 4
    /\ \A i \in 1..4 : DecimalIn(Split(s, ".")[i], 0, 255)

\* s is ip/prefix, with a dotted quad and a decimal prefix in 8..32
WellFormedCIDR(s) ==
    /\ Len(Split(s, "/")) = 2
    /\ DottedQuad(Split(s, "/")[1])
    /\ DecimalIn(Split(s, "/")[2], 8, 32)

\* C11: isValidCIDR(s) is true exactly when s is one ip/prefix pair whose ip is
\* four dot-separated decimal octets in 0..255, with no other character and no
\* white space around them, and whose prefix is an integer in 8..32.
C11_ValidIffWellFormed ==
    ret.fn = "isValidCIDR" => (ret.value <=> WellFormedCIDR(args.cidr1))

\* the octets and the prefix of a well-formed a.b.c.d/p
OctetsOf(s) == [i \in 1..4 |-> Val(AllDigits(Split(Split(s, "/")[1], ".")[i], 0))]

PrefixOf(s) == Val(AllDigits(Split(s, "/")[2], 0))

\* how many of the low 32 - p bits of the address lie in octet i
HostBits(p, i) == IF 8 * i <= p THEN 0 ELSE IF 8 * i - p >= 8 THEN 8 ELSE 8 * i - p

\* an octet with its h low bits cleared, and with them set
LowCleared(o, h) == o - (o % (2 ^ h))

LowSet(o, h) == LowCleared(o, h) + (2 ^ h) - 1

Dotted(q) ==
    DecDigits(q[1]) \o "." \o DecDigits(q[2]) \o "." \o DecDigits(q[3]) \o "." \o
    DecDigits(q[4])

\* the first and the last address of the block of a well-formed a.b.c.d/p, as octets
FirstOf(s) == [i \in 1..4 |-> LowCleared(OctetsOf(s)[i], HostBits(PrefixOf(s), i))]

LastOf(s) == [i \in 1..4 |-> LowSet(OctetsOf(s)[i], HostBits(PrefixOf(s), i))]

\* the block of a well-formed a.b.c.d/p, in unsigned arithmetic
BlockOf(s) ==
    [networkAddress   |-> Dotted(FirstOf(s)),
     broadcastAddress |-> Dotted(LastOf(s)),
     totalIps         |-> Num(2 ^ (32 - PrefixOf(s))),
     prefix           |-> Num(PrefixOf(s))]

\* C12: for every valid a.b.c.d/p parseCIDR returns the address with its low
\* 32 - p bits cleared as networkAddress, with them set as broadcastAddress,
\* 2^(32-p) as totalIps and p as prefix, for a first octet of 128 or more too.
C12_ParsedBlock ==
    (ret.fn = "parseCIDR" /\ WellFormedCIDR(args.cidr1)) => ret.value = BlockOf(args.cidr1)

\* parseCIDR has returned for an address above 128.0.0.0 that has host bits set
C12_HighAddressParsed ==
    /\ ret.fn = "parseCIDR"
    /\ WellFormedCIDR(args.cidr1)
    /\ OctetsOf(args.cidr1)[1] >= 128
    /\ ret.value.networkAddress # Split(args.cidr1, "/")[1]
    /\ ret.value.broadcastAddress # ret.value.networkAddress

\* x <= y for two addresses given as octets: the order of the unsigned values
QuadLe(x, y) ==
    \/ x = y
    \/ \E i \in 1..4 : x[i] < y[i] /\ \A j \in 1..(i - 1) : x[j] = y[j]

\* the closed intervals [network, broadcast] of a and b share an address
BlocksMeet(a, b) == QuadLe(FirstOf(a), LastOf(b)) /\ QuadLe(FirstOf(b), LastOf(a))

\* C13: for all valid CIDRs a and b, cidrsOverlap(a, b) is true exactly when the
\* closed unsigned intervals [network, broadcast] of a and b share an address;
\* it is symmetric and reflexive; blocks at or above 128.0.0.0 included.
C13_OverlapIsIntersection ==
    (ret.fn = "cidrsOverlap" /\ WellFormedCIDR(args.cidr1) /\ WellFormedCIDR(args.cidr2))
        => /\ ret.value <=> BlocksMeet(args.cidr1, args.cidr2)
           /\ ret.value <=> cidrsOverlap(args.cidr2, args.cidr1)
           /\ cidrsOverlap(args.cidr1, args.cidr1)

\* cidrsOverlap has answered true for two different blocks above 128.0.0.0
C13_HighBlocksOverlap ==
    /\ ret.fn = "cidrsOverlap"
    /\ WellFormedCIDR(args.cidr1) /\ WellFormedCIDR(args.cidr2)
    /\ args.cidr1 # args.cidr2
    /\ OctetsOf(args.cidr1)[1] >= 128 /\ OctetsOf(args.cidr2)[1] >= 128
    /\ ret.value

\* the unsigned value a * 2^24 + b * 2^16 + c * 2^8 + d of an address, as the
\* pair of its high and low 16 bits
HalvesOf(ip) ==
    LET o == [i \in 1..4 |-> Val(AllDigits(Split(ip, ".")[i], 0))]
    IN  <<o[1] * 256 + o[2], o[3] * 256 + o[4]>>

\* the number x is the unsigned value with these halves
IsUnsigned(x, halves) ==
    /\ ~isNaN(x)
    /\ Val(x) >= 0
    /\ Val(x) \div 65536 = halves[1]
    /\ Val(x) % 65536 = halves[2]

\* C14: ipToNumber returns the unsigned value a * 2^24 + b * 2^16 + c * 2^8 + d
\* of a.b.c.d, a number in 0 .. 2^32 - 1 and never a negative one, and the
\* bounds that cidrsOverlap and isChildOfParent compare are such values.
C14_IpToNumberUnsigned ==
    /\ (ret.fn = "ipToNumber" /\ DottedQuad(args.ip))
           => IsUnsigned(ret.value, HalvesOf(args.ip))
    /\ (ret.fn \in {"cidrsOverlap", "isChildOfParent"}
           /\ WellFormedCIDR(args.cidr1) /\ WellFormedCIDR(args.cidr2))
           => \A i \in 1..4 :
                  IsUnsigned(Ends(parseCIDR(args.cidr1), parseCIDR(args.cidr2))[i],
                             HalvesOf(<<BlockOf(args.cidr1).networkAddress,
                                        BlockOf(args.cidr1).broadcastAddress,
                                        BlockOf(args.cidr2).networkAddress,
                                        BlockOf(args.cidr2).broadcastAddress>>[i]))

(***************************************************************************)
(* The claim about updatePool, checked under StoreSpec.                    *)
(***************************************************************************)
\* the columns of a row that updatePool is to leave alone
Frozen(r) == [id |-> r.id, cidr |-> r.cidr, parentId |-> r.parentId, createdAt |-> r.createdAt]

\* C15: updatePool(id, updates) changes at most the name and the description of
\* the pool with that id: the cidr, parentId, id and createdAt of every pool and
\* every field of every other pool stay as they were, whatever fields updates
\* carries; with neither a name nor a description in updates it returns false
\* and leaves the collection unchanged.
C15_UpdateKeepsStructure ==
    [][ret'.fn = "updatePool"
          => /\ {Frozen(r) : r \in db'} = {Frozen(r) : r \in db}
             /\ Cardinality(db') = Cardinality(db)
             /\ \A r \in db : r.id # args'.id => r \in db'
             /\ ({"name", "description"} \cap DOMAIN args'.updates = {})
                    => (~ret'.value /\ db' = db)]_vars

\* updatePool has renamed one pool of two, on updates that carry a cidr and a
\* parentId different from the pool's
C15_RenamedWithOtherFields ==
    /\ ret.fn = "updatePool"
    /\ ret.value
    /\ {"name", "cidr", "parentId"} \subseteq DOMAIN args.updates
    /\ Cardinality(db) = 2
    /\ \E r \in db :
           /\ r.id = args.id
           /\ r.name = args.updates.name
           /\ r.cidr # args.updates.cidr
           /\ r.parentId # args.updates.parentId

(***************************************************************************)
(* The claim about the counts of the tree, checked under TreeSpec.         *)
(***************************************************************************)
\* the block of a lies within the block of b, on the unsigned values
BlockWithin(a, b) == QuadLe(FirstOf(b), FirstOf(a)) /\ QuadLe(LastOf(a), LastOf(b))

\* every pool of the list that has a parent lies within it, pools with the same
\* parent do not overlap, and no cidr occurs twice
Coherent(list) ==
    \A i, j \in 1..Len(list) :
        /\ list[i].parentId = list[j].id => BlockWithin(list[i].cidr, list[j].cidr)
        /\ (i # j /\ list[i].parentId = list[j].parentId)
               => ~BlocksMeet(list[i].cidr, list[j].cidr)
        /\ i # j => list[i].cidr # list[j].cidr

\* C16: for every collection in which each pool with a parent is contained in
\* it, siblings do not overlap and cidrs are unique, every node of the tree
\* built from it has usedIps <= totalIps, so the available count is never
\* negative and the usage percentage never exceeds 100.
C16_UsedWithinTotal ==
    Coherent(pools)
        => \A n \in DOMAIN poolTree.poolMap :
               /\ Le(poolTree.poolMap[n].usedIps, poolTree.poolMap[n].totalIps)
               /\ Ge(availableIps(poolTree.poolMap[n]), Num(0))
               /\ ~usagePercentAbove(poolTree.poolMap[n], 100)

\* the tree of a coherent collection has been built in which a pool is filled
\* by its children and one of them has a child of its own
C16_FilledPoolWithGrandchild ==
    /\ Len(pools) = MaxTreePools
    /\ Coherent(pools)
    /\ \E n \in ForestNodes(poolTree) :
           /\ poolTree.poolMap[n].usedIps = poolTree.poolMap[n].totalIps
           /\ \E i \in 1..Len(poolTree.poolMap[n].children) :
                  poolTree.poolMap[poolTree.poolMap[n].children[i]].children # <<>>

====
